---- MODULE Spec2Model ----
(***************************************************************************)
(* workflow-database: a JSON file-backed document store (src/index.js)     *)
(* built on the filter/update/erase helpers of workflow-data               *)
(* (src/node_modules/workflow-data/index.js).                              *)
(*                                                                         *)
(* Spec      one caller, every public operation runs to completion         *)
(*           (the code is synchronous), starting from an empty root.       *)
(* SpecRace  two callers (separate processes bound to the same root)       *)
(*           whose insertOne calls interleave between readFile and         *)
(*           writeFile.                                                    *)
(***************************************************************************)
EXTENDS Integers, Sequences, FiniteSets, TLC

\* ------------------------------------------------------------------ bounds
\* most documents held by all collection files together
MaxDocs == 2
\* most identifiers drawn from randomHex in one behaviour
MaxGen == 2
\* most insertOne calls started in one behaviour of SpecRace
MaxCalls == 3

\* ------------------------------------------------------------ JS values
\* A scalar JS value is <<typeof-tag, payload>>; the payload is always a
\* string so that any two values can be compared.
UNDEF == <<"undefined", "">>
NULL == <<"null", "">>
NAN == <<"number", "NaN">>
FALSE_V == <<"boolean", "false">>
Str(s) == <<"string", s>>
Num(s) == <<"number", s>>
BigIntV(s) == <<"bigint", s>>

\* the values `!v` is true for
Falsy == {UNDEF, NULL, NAN, FALSE_V, Str(""), Num("0"), BigIntV("0")}
Truthy(v) == v \notin Falsy

\* a === b  and  SameValueZero(a, b) (Array.prototype.includes); they differ
\* on NaN only
\* the == of JavaScript, which takes null and undefined for equal
StrictEq_loose(a, b) == (a = b /\ a # NAN) \/ {a, b} = {NULL, UNDEF}

StrictEq(a, b) == a = b /\ a # NAN

SameValueZero(a, b) == a = b

\* An object is a function from its own keys to values: DOMAIN o is
\* Object.keys(o), and reading a missing key gives undefined.
EmptyObj == [k \in {} |-> UNDEF]
Get(o, k) == IF k \in DOMAIN o THEN o[k] ELSE UNDEF
Set(o, k, v) == [x \in DOMAIN o \cup {k} |-> IF x = k THEN v ELSE o[x]]

\* Object.assign(target, source): every own key of source is written
ObjectAssign(target, source) ==
  [k \in DOMAIN target \cup DOMAIN source |->
     IF k \in DOMAIN source THEN source[k] ELSE target[k]]

\* An argument a caller passes where a document or an update spec is
\* expected: t is what the argument is, f its own enumerable properties
\* (the indices "0", "1", ... for an array).
JObj(f) == [t |-> "object", f |-> f]
JArr(f) == [t |-> "array", f |-> f]
JNull == [t |-> "null", f |-> EmptyObj]
JStr == [t |-> "string", f |-> EmptyObj]
TypeOf(a) == IF a.t \in {"object", "array", "null"} THEN "object" ELSE a.t
IsArray(a) == a.t = "array"

\* a filter value: a scalar, or an array of scalars
Scalar(v) == [isArray |-> FALSE, vals |-> <<v>>]
OneOf(s) == [isArray |-> TRUE, vals |-> s]

\* ----------------------------------------------------------- identifiers
\* randomHex(8): 16 hex characters from crypto.getRandomValues.  The source
\* of randomness is taken never to repeat a value, so the n-th draw is the
\* n-th entry of a table of distinct strings.
HexTable == << "3f9a1c0e5b7d2a46", "c41d88e07a6f0b92", "0be5a7736d19f4c8",
               "9d20446fa1c37e5b", "71ce0a95b83f62d4", "e8b3f15c2907d6a1" >>
randomHex(n) == Str(HexTable[n + 1])

\* --------------------------------------------------------- collection names
\* a collection name is its sequence of character codes
IsAlpha(ch) == (ch >= 65 /\ ch <= 90) \/ (ch >= 97 /\ ch <= 122)

\* /^[A-Za-z]+$/.test(str) with the anchors dropped: any letter suffices
validateAlphabetical_unanchored(str) ==
  \E i \in 1..Len(str) : IsAlpha(str[i])

validateAlphabetical(str) ==
  Len(str) >= 1 /\ \A i \in 1..Len(str) : IsAlpha(str[i])

\* one file for all collections: `${this.directory}/db.json`
filepath_shared(collection) == <<100, 98>>

\* `${this.directory}/${collection}.json`: one path per name under the root
filepath(collection) == collection

\* ------------------------------------------------------------- file codec
\* The text of a file is [kind, docs]: kind "array" is the JSON text of an
\* array of objects, "object" a JSON text that is not an array, "garbage" a
\* text JSON.parse rejects.
Serializable(o) == \A k \in DOMAIN o : o[k][1] # "bigint"
ToJson(v) == IF v = NAN THEN NULL ELSE v

\* a serializer that leaves out the keys holding null as well
stringifyObj_droppingNull(o) ==
  [k \in {x \in DOMAIN o : o[x] \notin {UNDEF, NULL}} |-> ToJson(o[k])]

\* JSON.stringify of one object: keys holding undefined are left out, NaN is
\* written as null
stringifyObj(o) ==
  [k \in {x \in DOMAIN o : o[x] # UNDEF} |-> ToJson(o[k])]

\* JSON.stringify(data, null, 2) for an array of objects; throws a TypeError
\* on a BigInt
JSONstringify(docs) ==
  IF \E i \in 1..Len(docs) : ~Serializable(docs[i])
  THEN [threw |-> TRUE, text |-> [kind |-> "garbage", docs |-> <<>>]]
  ELSE [threw |-> FALSE,
        text |-> [kind |-> "array",
                  docs |-> [i \in 1..Len(docs) |-> stringifyObj(docs[i])]]]

\* JSON.parse(text): throws a SyntaxError on garbage
JSONparse(text) ==
  IF text.kind = "garbage"
  THEN [threw |-> TRUE, val |-> [isArray |-> FALSE, docs |-> <<>>]]
  ELSE [threw |-> FALSE,
        val |-> [isArray |-> text.kind = "array", docs |-> text.docs]]

EmptyArray == [isArray |-> TRUE, docs |-> <<>>]

\* a writer that creates (truncates) the file before it serializes
writeFile_truncating(fsys, path, docs) ==
  LET j == JSONstringify(docs) IN
  IF j.threw
  THEN [threw |-> TRUE,
        files |-> (path :> [kind |-> "array", docs |-> <<>>]) @@ fsys,
        io |-> <<"existsSync", "writeFileSync">>]
  ELSE [threw |-> FALSE, files |-> (path :> j.text) @@ fsys,
        io |-> <<"existsSync", "writeFileSync">>]

\* a writer that leaves an existing file alone (flag "wx")
writeFile_unlessExists(fsys, path, docs) ==
  LET j == JSONstringify(docs) IN
  IF j.threw
  THEN [threw |-> TRUE, files |-> fsys, io |-> <<"existsSync">>]
  ELSE IF path \in DOMAIN fsys
  THEN [threw |-> FALSE, files |-> fsys, io |-> <<"existsSync">>]
  ELSE [threw |-> FALSE, files |-> (path :> j.text) @@ fsys,
        io |-> <<"existsSync", "writeFileSync">>]

\* writeFile(filepath, data): look for the directory (the constructor made
\* it), serialize, then overwrite the whole file.  io lists the fs calls.
writeFile(fsys, path, docs) ==
  LET j == JSONstringify(docs) IN
  IF j.threw
  THEN [threw |-> TRUE, files |-> fsys, io |-> <<"existsSync">>]
  ELSE [threw |-> FALSE, files |-> (path :> j.text) @@ fsys,
        io |-> <<"existsSync", "writeFileSync">>]

\* a readFile without the try/catch: what does not parse is not an array
readFile_uncaught(fsys, path) ==
  IF path \notin DOMAIN fsys
  THEN EmptyArray
  ELSE JSONparse(fsys[path]).val

\* readFile(filepath): [] when the file is missing or does not parse
readFile(fsys, path) ==
  IF path \notin DOMAIN fsys
  THEN EmptyArray
  ELSE LET p == JSONparse(fsys[path]) IN
       IF p.threw THEN EmptyArray ELSE p.val

\* the fs calls of readFile(filepath)
readFileIO(fsys, path) ==
  IF path \notin DOMAIN fsys
  THEN <<"existsSync">>
  ELSE <<"existsSync", "readFileSync">>

\* ---------------------------------------------------------- workflow-data
includes(s, v) == \E i \in 1..Len(s) : SameValueZero(s[i], v)

\* a some() in place of the every()
matches_any(obj, criteria) ==
  \E key \in DOMAIN criteria :
    IF criteria[key].isArray
    THEN includes(criteria[key].vals, Get(obj, key))
    ELSE StrictEq(Get(obj, key), criteria[key].vals[1])

matches(obj, criteria) ==
  \A key \in DOMAIN criteria :
    IF criteria[key].isArray
    THEN includes(criteria[key].vals, Get(obj, key))
    ELSE StrictEq(Get(obj, key), criteria[key].vals[1])

Reverse(s) == [i \in 1..Len(s) |-> s[Len(s) + 1 - i]]

\* a filter that hands back the matches last-first
wfilter_reversed(data, criteria) ==
  IF ~data.isArray
  THEN [threw |-> TRUE, val |-> <<>>]
  ELSE [threw |-> FALSE,
        val |-> Reverse(SelectSeq(data.docs, LAMBDA o : matches(o, criteria)))]

\* filter(data, filterCriteria)
wfilter(data, criteria) ==
  IF ~data.isArray
  THEN [threw |-> TRUE, val |-> <<>>]
  ELSE [threw |-> FALSE,
        val |-> SelectSeq(data.docs, LAMBDA o : matches(o, criteria))]

\* an update that replaces the matching document by the update spec
wupdate_replacing(data, criteria, updates) ==
  IF ~data.isArray \/ TypeOf(updates) # "object" \/ updates.t = "null"
  THEN [threw |-> TRUE, docs |-> <<>>]
  ELSE [threw |-> FALSE,
        docs |-> [i \in 1..Len(data.docs) |->
                    IF matches(data.docs[i], criteria)
                    THEN updates.f
                    ELSE data.docs[i]]]

\* an update that moves the documents it changed behind the others
wupdate_reordering(data, criteria, updates) ==
  IF ~data.isArray \/ TypeOf(updates) # "object" \/ updates.t = "null"
  THEN [threw |-> TRUE, docs |-> <<>>]
  ELSE [threw |-> FALSE,
        docs |-> SelectSeq(data.docs, LAMBDA o : ~matches(o, criteria))
                   \o [i \in 1..Len(SelectSeq(data.docs,
                                              LAMBDA o : matches(o, criteria)))
                         |-> ObjectAssign(
                               SelectSeq(data.docs,
                                         LAMBDA o : matches(o, criteria))[i],
                               updates.f)]]

\* update(data, filterCriteria, updates)
wupdate(data, criteria, updates) ==
  IF ~data.isArray \/ TypeOf(updates) # "object" \/ updates.t = "null"
  THEN [threw |-> TRUE, docs |-> <<>>]
  ELSE [threw |-> FALSE,
        docs |-> [i \in 1..Len(data.docs) |->
                    IF matches(data.docs[i], criteria)
                    THEN ObjectAssign(data.docs[i], updates.f)
                    ELSE data.docs[i]]]

\* data.splice(i, 1)
splice(s, i) == SubSeq(s, 1, i - 1) \o SubSeq(s, i + 1, Len(s))

RECURSIVE eraseLoop(_, _, _)
eraseLoop(docs, i, criteria) ==
  IF i = 0 THEN docs
  ELSE eraseLoop(IF matches(docs[i], criteria) THEN splice(docs, i) ELSE docs,
                 i - 1, criteria)

\* for (i = 0; i < data.length; i++): the element after a removed one is
\* skipped
RECURSIVE eraseForward(_, _, _)
eraseForward(docs, i, criteria) ==
  IF i > Len(docs) THEN docs
  ELSE eraseForward(IF matches(docs[i], criteria) THEN splice(docs, i) ELSE docs,
                    i + 1, criteria)

\* an erase that walks the array from the front
werase_forward(data, criteria) ==
  IF ~data.isArray
  THEN [threw |-> TRUE, docs |-> <<>>]
  ELSE [threw |-> FALSE, docs |-> eraseForward(data.docs, 1, criteria)]

\* an erase by data.splice(data.findIndex(...), 1): with no match the index
\* is -1 and the last element goes
werase_spliceLast(data, criteria) ==
  IF ~data.isArray
  THEN [threw |-> TRUE, docs |-> <<>>]
  ELSE IF \E i \in 1..Len(data.docs) : matches(data.docs[i], criteria)
       THEN [threw |-> FALSE,
             docs |-> eraseLoop(data.docs, Len(data.docs), criteria)]
       ELSE [threw |-> FALSE,
             docs |-> SubSeq(data.docs, 1, Len(data.docs) - 1)]

\* erase(data, filterCriteria)
werase(data, criteria) ==
  IF ~data.isArray
  THEN [threw |-> TRUE, docs |-> <<>>]
  ELSE [threw |-> FALSE, docs |-> eraseLoop(data.docs, Len(data.docs), criteria)]

\* ------------------------------------------------------------------ state
VARIABLES
  files,      \* the root directory: file path -> text of the file
  nextId,     \* number of identifiers drawn from randomHex so far
  prev,       \* the root directory before the last call
  op,         \* the last call: the operation ("idle" once its result is taken),
  coll,       \*   its collection name,
  argDoc,     \*   its document (insertOne),
  argDocs,    \*   its documents (insertMany),
  argFilter,  \*   its filter (findOne, findMany, update, delete),
  argId,      \*   its id (findById, updateById, deleteById),
  argUpd,     \*   its update spec (update, updateById),
  ret,        \*   what it returned or threw,
  io,         \*   the fs calls it made, in order
  rpc,        \* SpecRace: where each caller is in its insertOne or delete
  rcoll,      \* SpecRace: the collection each caller works on
  rdoc,       \* SpecRace: the document each caller inserts, after validateDoc
  rsnap,      \* SpecRace: what readFile returned to each caller
  rdata,      \* SpecRace: each caller's array after data.push or erase
  rop,        \* SpecRace: each caller's call: its name, its filter (delete)
              \*   and the number of steps taken before it read the file
  started,    \* SpecRace: calls started
  completed,  \* SpecRace: calls that returned: <<caller, collection,
              \*   document, name, filter, steps before its readFile,
              \*   steps before its writeFile>>
  probe,      \* SpecPure: the arguments and result of one application
  bpc,        \* SpecBatch: where the writer is in its insertMany
  bbatch,     \* SpecBatch: the documents it was handed
  bi,         \* SpecBatch: the index of the next one in the for loop
  bsnap,      \* SpecBatch: what readFile returned to it
  bdata,      \* SpecBatch: its array in memory
  bwrites,    \* SpecBatch: the writeFile calls of its current or last call
  bcalls,     \* SpecBatch: insertMany calls started
  bobs,       \* SpecBatch: what the reader's last findMany saw, and when
  mem,        \* SpecMem: the sequence kept in memory for comparison
  mret,       \* SpecMem: what the last call gives on that sequence
  inst,       \* SpecMem: the store instance that made the last call
  mwriter     \* SpecMem: the store instance that last wrote the file

opVars == <<prev, op, coll, argDoc, argDocs, argFilter, argId, argUpd, ret,
           io>>
raceVars == <<rpc, rcoll, rdoc, rsnap, rdata, rop, started, completed>>
pureVars == <<probe>>
batchVars == <<bpc, bbatch, bi, bsnap, bdata, bwrites, bcalls, bobs>>
memVars == <<mem, mret, inst, mwriter>>
vars == <<files, nextId, prev, op, coll, argDoc, argDocs, argFilter, argId,
          argUpd, ret, io, rpc, rcoll, rdoc, rsnap, rdata, rop, started,
          completed, probe, bpc, bbatch, bi, bsnap, bdata, bwrites, bcalls,
          bobs, mem, mret, inst, mwriter>>

\* -------------------------------------------------------------- results
Returned == [kind |-> "return", err |-> "", many |-> <<>>,
             found |-> FALSE, one |-> EmptyObj]
Thrown(e) == [kind |-> "throw", err |-> e, many |-> <<>>,
              found |-> FALSE, one |-> EmptyObj]
\* an indexing that takes the last element
First_last(arr) == IF Len(arr) > 0
                   THEN [Returned EXCEPT !.found = TRUE, !.one = arr[Len(arr)]]
                   ELSE Returned

\* arr[0]: undefined for an empty array
First(arr) == IF Len(arr) > 0
              THEN [Returned EXCEPT !.found = TRUE, !.one = arr[1]]
              ELSE Returned

\* what a call leaves: the files, the identifiers drawn, its result and the
\* fs calls it made, in order
Outcome(fsys, n, r, calls) ==
  [files |-> fsys, nid |-> n, ret |-> r, io |-> calls]

\* -------------------------------------------------------------- Database
\* the plain-object test of insertOne and validateDoc
NotPlainObject(document) ==
  TypeOf(document) # "object" \/ document.t = "null" \/ IsArray(document)

\* a validateDoc that draws an identifier for every document
validateDoc_overwriting(document, n) ==
  IF NotPlainObject(document)
  THEN [threw |-> TRUE, doc |-> EmptyObj, n |-> n]
  ELSE [threw |-> FALSE, doc |-> Set(document.f, "_id", randomHex(n)),
        n |-> n + 1]

\* a validateDoc with `document._id === undefined` for `!document._id`
validateDoc_missingOnly(document, n) ==
  IF NotPlainObject(document)
  THEN [threw |-> TRUE, doc |-> EmptyObj, n |-> n]
  ELSE IF Get(document.f, "_id") = UNDEF
       THEN [threw |-> FALSE, doc |-> Set(document.f, "_id", randomHex(n)),
             n |-> n + 1]
       ELSE [threw |-> FALSE, doc |-> document.f, n |-> n]

\* validateDoc(document): n is the number of identifiers drawn before
validateDoc(document, n) ==
  IF NotPlainObject(document)
  THEN [threw |-> TRUE, doc |-> EmptyObj, n |-> n]
  ELSE IF ~Truthy(Get(document.f, "_id"))
       THEN [threw |-> FALSE, doc |-> Set(document.f, "_id", randomHex(n)),
             n |-> n + 1]
       ELSE [threw |-> FALSE, doc |-> document.f, n |-> n]

\* a push that puts the document in front
push_front(docs, document) == <<document>> \o docs

\* an assignment in place of the push: data = [document]
push_replace(docs, document) == <<document>>

\* data.push(document)
push(docs, document) == Append(docs, document)

insertOne(fsys, n, collection, document) ==
  IF ~validateAlphabetical(collection)
  THEN Outcome(fsys, n, Thrown("ReferenceError"), <<>>)
  ELSE IF NotPlainObject(document)
  THEN Outcome(fsys, n, Thrown("TypeError"), <<>>)
  ELSE LET v == validateDoc(document, n)
           data == readFile(fsys, filepath(collection))
           rio == readFileIO(fsys, filepath(collection))
       IN IF ~data.isArray
          THEN Outcome(fsys, v.n, Thrown("TypeError"), rio)
          ELSE LET w == writeFile(fsys, filepath(collection),
                                  push(data.docs, v.doc))
               IN IF w.threw
                  THEN Outcome(w.files, v.n, Thrown("TypeError"), rio \o w.io)
                  ELSE Outcome(w.files, v.n, Returned, rio \o w.io)

\* a loop that returns after its first document
insertManyLoop_first(data, docs, i, n) ==
  IF i > Len(docs)
  THEN [threw |-> FALSE, docs |-> data, n |-> n]
  ELSE LET v == validateDoc(docs[i], n) IN
       IF v.threw
       THEN [threw |-> TRUE, docs |-> data, n |-> v.n]
       ELSE [threw |-> FALSE, docs |-> Append(data, v.doc), n |-> v.n]

\* for (let document of docs) { validateDoc; data.push }
RECURSIVE insertManyLoop(_, _, _, _)
insertManyLoop(data, docs, i, n) ==
  IF i > Len(docs)
  THEN [threw |-> FALSE, docs |-> data, n |-> n]
  ELSE LET v == validateDoc(docs[i], n) IN
       IF v.threw
       THEN [threw |-> TRUE, docs |-> data, n |-> v.n]
       ELSE insertManyLoop(push(data, v.doc), docs, i + 1, v.n)

\* docs is [isArray, elems]: what the caller passed as the batch
insertMany(fsys, n, collection, docs) ==
  IF ~validateAlphabetical(collection)
  THEN Outcome(fsys, n, Thrown("ReferenceError"), <<>>)
  ELSE IF ~docs.isArray
          \/ ~(\A i \in 1..Len(docs.elems) :
                 TypeOf(docs.elems[i]) = "object" /\ docs.elems[i].t # "null")
  THEN Outcome(fsys, n, Thrown("TypeError"), <<>>)
  ELSE LET data == readFile(fsys, filepath(collection))
           rio == readFileIO(fsys, filepath(collection))
       IN
       IF ~data.isArray
       THEN Outcome(fsys, n, Thrown("TypeError"), rio)
       ELSE LET l == insertManyLoop(data.docs, docs.elems, 1, n) IN
            IF l.threw
            THEN Outcome(fsys, l.n, Thrown("TypeError"), rio)
            ELSE LET w == writeFile(fsys, filepath(collection), l.docs) IN
                 IF w.threw
                 THEN Outcome(w.files, l.n, Thrown("TypeError"), rio \o w.io)
                 ELSE Outcome(w.files, l.n, Returned, rio \o w.io)

\* the filter { _id }
IdFilter(id) == "_id" :> Scalar(id)

\* a findMany that writes what it found back to the file
findMany_saving(fsys, n, collection, filter) ==
  IF ~validateAlphabetical(collection)
  THEN Outcome(fsys, n, Thrown("ReferenceError"), <<>>)
  ELSE LET r == wfilter(readFile(fsys, filepath(collection)), filter)
           rio == readFileIO(fsys, filepath(collection))
       IN IF r.threw
          THEN Outcome(fsys, n, Thrown("TypeError"), rio)
          ELSE LET w == writeFile(fsys, filepath(collection), r.val) IN
               Outcome(w.files, n, [Returned EXCEPT !.many = r.val],
                       rio \o w.io)

findMany(fsys, n, collection, filter) ==
  IF ~validateAlphabetical(collection)
  THEN Outcome(fsys, n, Thrown("ReferenceError"), <<>>)
  ELSE LET r == wfilter(readFile(fsys, filepath(collection)), filter)
           rio == readFileIO(fsys, filepath(collection))
       IN IF r.threw
          THEN Outcome(fsys, n, Thrown("TypeError"), rio)
          ELSE Outcome(fsys, n, [Returned EXCEPT !.many = r.val], rio)

\* a findOne that throws when no document matches
findOne_throwing(fsys, n, collection, filter) ==
  IF ~validateAlphabetical(collection)
  THEN Outcome(fsys, n, Thrown("ReferenceError"), <<>>)
  ELSE LET r == wfilter(readFile(fsys, filepath(collection)), filter)
           rio == readFileIO(fsys, filepath(collection))
       IN IF r.threw \/ r.val = <<>>
          THEN Outcome(fsys, n, Thrown("TypeError"), rio)
          ELSE Outcome(fsys, n, First(r.val), rio)

findOne(fsys, n, collection, filter) ==
  IF ~validateAlphabetical(collection)
  THEN Outcome(fsys, n, Thrown("ReferenceError"), <<>>)
  ELSE LET r == wfilter(readFile(fsys, filepath(collection)), filter)
           rio == readFileIO(fsys, filepath(collection))
       IN IF r.threw
          THEN Outcome(fsys, n, Thrown("TypeError"), rio)
          ELSE Outcome(fsys, n, First(r.val), rio)

findById(fsys, n, collection, id) ==
  IF ~validateAlphabetical(collection)
  THEN Outcome(fsys, n, Thrown("ReferenceError"), <<>>)
  ELSE LET r == wfilter(readFile(fsys, filepath(collection)), IdFilter(id))
           rio == readFileIO(fsys, filepath(collection))
       IN IF r.threw
          THEN Outcome(fsys, n, Thrown("TypeError"), rio)
          ELSE Outcome(fsys, n, First(r.val), rio)

update(fsys, n, collection, filter, updates) ==
  IF ~validateAlphabetical(collection)
  THEN Outcome(fsys, n, Thrown("ReferenceError"), <<>>)
  ELSE LET u == wupdate(readFile(fsys, filepath(collection)), filter, updates)
           rio == readFileIO(fsys, filepath(collection))
       IN IF u.threw
          THEN Outcome(fsys, n, Thrown("TypeError"), rio)
          ELSE LET w == writeFile(fsys, filepath(collection), u.docs) IN
               IF w.threw
               THEN Outcome(w.files, n, Thrown("TypeError"), rio \o w.io)
               ELSE Outcome(w.files, n, Returned, rio \o w.io)

updateById(fsys, n, collection, id, updates) ==
  update(fsys, n, collection, IdFilter(id), updates)

delete(fsys, n, collection, filter) ==
  IF ~validateAlphabetical(collection)
  THEN Outcome(fsys, n, Thrown("ReferenceError"), <<>>)
  ELSE LET e == werase(readFile(fsys, filepath(collection)), filter)
           rio == readFileIO(fsys, filepath(collection))
       IN IF e.threw
          THEN Outcome(fsys, n, Thrown("TypeError"), rio)
          ELSE LET w == writeFile(fsys, filepath(collection), e.docs) IN
               IF w.threw
               THEN Outcome(w.files, n, Thrown("TypeError"), rio \o w.io)
               ELSE Outcome(w.files, n, Returned, rio \o w.io)

deleteById(fsys, n, collection, id) ==
  delete(fsys, n, collection, IdFilter(id))

\* ------------------------------------------------------------------ inputs
\* collection names, as character codes
NameUsers == <<117, 115, 101, 114, 115>>
NameEmpty == << >>
NameSlash == <<97, 47, 98>>
NameBackslash == <<97, 92, 98>>
NameDrive == <<67, 58>>
NameNewline == <<102, 97, 109, 10>>
NameDigit == <<102, 49>>
ValidNames == {NameUsers}
InvalidNames == {NameEmpty, NameSlash, NameBackslash, NameDrive, NameNewline,
                 NameDigit}
CollNames == ValidNames \cup InvalidNames

\* the arguments tried with collection name c: all of S with a well-formed
\* name, one representative with a malformed one
ArgsFor(c, S) == IF c \in ValidNames THEN S ELSE {CHOOSE x \in S : TRUE}

PathSeparators == {47, 92}
DriveSeparators == {58}
IsControl(ch) == ch < 32 \/ ch = 127
Unsafe(name) ==
  \E i \in 1..Len(name) :
    name[i] \in PathSeparators \cup DriveSeparators \/ IsControl(name[i])

\* documents a caller inserts
DocAlice == JObj("name" :> Str("A"))
DocBen == JObj("name" :> Str("B"))
DocWithId == JObj(("_id" :> Str("a")) @@ ("name" :> Str("A")))
DocNumberId == JObj("_id" :> Num("5"))
DocEmptyId == JObj(("_id" :> Str("")) @@ ("name" :> Str("A")))
DocBigInt == JObj("name" :> BigIntV("1"))
ArrayArg == JArr("0" :> Str("A"))
PlainDocs == {DocAlice, DocBen, DocWithId, DocNumberId, DocEmptyId}
NonObjects == {JNull, JStr, ArrayArg}

\* the documents a collection file holds
Stored(fsys, c) == readFile(fsys, filepath(c)).docs
StoredSet(fsys, c) == {Stored(fsys, c)[i] : i \in 1..Len(Stored(fsys, c))}

\* a caller inserts a fresh literal, a non-object, or an object it got back
\* from the store (or inserted before), which carries its _id
DocArgs(fsys, c) ==
  PlainDocs \cup {DocBigInt} \cup NonObjects
    \cup {JObj(d) : d \in StoredSet(fsys, c)}

Batch(s) == [isArray |-> TRUE, elems |-> s]
NotABatch == [isArray |-> FALSE, elems |-> <<>>]
BatchArgs ==
  { Batch(<<>>), Batch(<<DocAlice>>), Batch(<<DocAlice, DocBen>>),
    Batch(<<DocBen, DocAlice>>), Batch(<<DocWithId, DocWithId>>),
    Batch(<<DocAlice, ArrayArg, DocBen>>), Batch(<<DocAlice, JNull>>),
    Batch(<<DocAlice, DocBigInt>>), NotABatch }

FilterArgs ==
  { EmptyObj,
    "name" :> Scalar(Str("A")),
    "name" :> OneOf(<<Str("B")>>),
    ("name" :> Scalar(Str("A"))) @@ ("_id" :> OneOf(<<Str("a"), randomHex(0)>>)) }

IdArgs == {Str("a"), randomHex(0), Str("nope")}

UpdateArgs ==
  { JObj("name" :> Str("B")), JObj("_id" :> Str("a")),
    JObj("name" :> BigIntV("1")), ArrayArg, JNull, JStr }

\* ------------------------------------------------------------------ actions
RECURSIVE TotalDocs(_, _)
TotalDocs(fsys, paths) ==
  IF paths = {} THEN 0
  ELSE LET p == CHOOSE x \in paths : TRUE IN
       Len(fsys[p].docs) + TotalDocs(fsys, paths \ {p})

NoDoc == JNull
NoBatch == NotABatch
NoFilter == EmptyObj
NoId == UNDEF
NoUpd == JNull

\* one call that ran to completion with outcome r
Call(name, c, r, d, ds, f, id, u) ==
  /\ op = "idle"
  /\ r.nid <= MaxGen
  /\ TotalDocs(r.files, DOMAIN r.files) <= MaxDocs
  /\ prev' = files
  /\ files' = r.files
  /\ nextId' = r.nid
  /\ ret' = r.ret
  /\ io' = r.io
  /\ op' = name
  /\ coll' = c
  /\ argDoc' = d
  /\ argDocs' = ds
  /\ argFilter' = f
  /\ argId' = id
  /\ argUpd' = u
  /\ UNCHANGED <<raceVars, pureVars, batchVars, memVars>>

InsertOne ==
  \E c \in CollNames : \E d \in ArgsFor(c, DocArgs(files, c)) :
    Call("insertOne", c, insertOne(files, nextId, c, d),
         d, NoBatch, NoFilter, NoId, NoUpd)

InsertMany ==
  \E c \in CollNames : \E ds \in ArgsFor(c, BatchArgs) :
    Call("insertMany", c, insertMany(files, nextId, c, ds),
         NoDoc, ds, NoFilter, NoId, NoUpd)

FindById ==
  \E c \in CollNames : \E id \in ArgsFor(c, IdArgs) :
    Call("findById", c, findById(files, nextId, c, id),
         NoDoc, NoBatch, NoFilter, id, NoUpd)

FindOne ==
  \E c \in CollNames : \E f \in ArgsFor(c, FilterArgs) :
    Call("findOne", c, findOne(files, nextId, c, f),
         NoDoc, NoBatch, f, NoId, NoUpd)

FindMany ==
  \E c \in CollNames : \E f \in ArgsFor(c, FilterArgs) :
    Call("findMany", c, findMany(files, nextId, c, f),
         NoDoc, NoBatch, f, NoId, NoUpd)

UpdateById ==
  \E c \in CollNames :
    \E id \in ArgsFor(c, IdArgs), u \in ArgsFor(c, UpdateArgs) :
    Call("updateById", c, updateById(files, nextId, c, id, u),
         NoDoc, NoBatch, NoFilter, id, u)

Update ==
  \E c \in CollNames :
    \E f \in ArgsFor(c, FilterArgs), u \in ArgsFor(c, UpdateArgs) :
    Call("update", c, update(files, nextId, c, f, u),
         NoDoc, NoBatch, f, NoId, u)

Delete ==
  \E c \in CollNames : \E f \in ArgsFor(c, FilterArgs) :
    Call("delete", c, delete(files, nextId, c, f),
         NoDoc, NoBatch, f, NoId, NoUpd)

DeleteById ==
  \E c \in CollNames : \E id \in ArgsFor(c, IdArgs) :
    Call("deleteById", c, deleteById(files, nextId, c, id),
         NoDoc, NoBatch, NoFilter, id, NoUpd)

\* new Database(directory) on a root without collection files
NoFiles == [p \in {} |-> [kind |-> "array", docs |-> <<>>]]

\* no call under way
InitOp ==
  /\ prev = NoFiles
  /\ op = "idle"
  /\ coll = NameEmpty
  /\ argDoc = NoDoc
  /\ argDocs = NoBatch
  /\ argFilter = NoFilter
  /\ argId = NoId
  /\ argUpd = NoUpd
  /\ ret = Returned
  /\ io = <<>>

\* the caller takes the result of its last call and is free to call again
Return ==
  /\ op # "idle"
  /\ prev' = NoFiles
  /\ op' = "idle"
  /\ coll' = NameEmpty
  /\ argDoc' = NoDoc
  /\ argDocs' = NoBatch
  /\ argFilter' = NoFilter
  /\ argId' = NoId
  /\ argUpd' = NoUpd
  /\ ret' = Returned
  /\ io' = <<>>
  /\ UNCHANGED <<files, nextId>>
  /\ UNCHANGED <<raceVars, pureVars, batchVars, memVars>>

Callers == {1, 2}

\* no call in progress
NoCall == [name |-> "idle", filter |-> EmptyObj, at |-> 0]

InitRace ==
  /\ rpc = [p \in Callers |-> "idle"]
  /\ rcoll = [p \in Callers |-> NameEmpty]
  /\ rdoc = [p \in Callers |-> EmptyObj]
  /\ rsnap = [p \in Callers |-> <<>>]
  /\ rdata = [p \in Callers |-> <<>>]
  /\ rop = [p \in Callers |-> NoCall]
  /\ started = 0
  /\ completed = <<>>

\* nothing applied yet
NoProbe == [fn |-> "none", applied |-> FALSE, obj |-> EmptyObj,
            crit |-> EmptyObj, docs |-> <<>>, fsys |-> NoFiles,
            threw |-> FALSE, res |-> FALSE, loaded |-> EmptyArray,
            name |-> "", arg |-> NoDoc, batch |-> NoBatch, id |-> NoId,
            upd |-> NoUpd, n |-> 0,
            vout |-> [threw |-> FALSE, doc |-> EmptyObj, n |-> 0],
            vagain |-> [threw |-> FALSE, doc |-> EmptyObj, n |-> 0],
            out |-> Outcome(NoFiles, 0, Returned, <<>>)]

InitPure == probe = NoProbe

\* no insertMany started, nothing read
NoObs == [seen |-> <<>>, pc |-> "idle", snap |-> <<>>, pushed |-> 0,
          total |-> 0]

InitBatch ==
  /\ bpc = "idle"
  /\ bbatch = <<>>
  /\ bi = 1
  /\ bsnap = <<>>
  /\ bdata = <<>>
  /\ bwrites = 0
  /\ bcalls = 0
  /\ bobs = NoObs

InitMem ==
  /\ mem = <<>>
  /\ mret = Returned
  /\ inst = 0
  /\ mwriter = 0

Init ==
  /\ files = NoFiles
  /\ nextId = 0
  /\ InitOp
  /\ InitRace
  /\ InitPure
  /\ InitBatch
  /\ InitMem

Next ==
  \/ InsertOne
  \/ InsertMany
  \/ FindById
  \/ FindOne
  \/ FindMany
  \/ UpdateById
  \/ Update
  \/ Delete
  \/ DeleteById
  \/ Return

Spec == Init /\ [][Next]_vars

\* ------------------------------------------------- two interleaved callers
\* Two processes bound to the same root each run insertOne or delete; the
\* scheduler may switch between them after readFile and the change of the
\* array in memory, and before writeFile.
NameFam == <<102, 97, 109>>
RaceColls == {NameUsers, NameFam}
RaceDocs == {DocAlice, DocBen}
RaceFilters == {"name" :> Scalar(Str("A"))}

\* the steps taken so far by both callers
Clock == started + Len(completed)

\* insertOne up to and including data.push(document)
RaceLoad(p) ==
  /\ rpc[p] = "idle"
  /\ started < MaxCalls
  /\ \E c \in RaceColls, d \in RaceDocs :
       LET v == validateDoc(d, nextId)
           data == readFile(files, filepath(c))
       IN /\ validateAlphabetical(c)
          /\ v.n <= MaxGen
          /\ nextId' = v.n
          /\ rcoll' = [rcoll EXCEPT ![p] = c]
          /\ rdoc' = [rdoc EXCEPT ![p] = v.doc]
          /\ rsnap' = [rsnap EXCEPT ![p] = data.docs]
          /\ rdata' = [rdata EXCEPT ![p] = push(data.docs, v.doc)]
  /\ rop' = [rop EXCEPT ![p] = [NoCall EXCEPT !.name = "insertOne",
                                              !.at = Clock]]
  /\ rpc' = [rpc EXCEPT ![p] = "loaded"]
  /\ started' = started + 1
  /\ UNCHANGED <<files, completed>>
  /\ UNCHANGED <<opVars, pureVars, batchVars, memVars>>

\* delete up to and including wdata.erase(data, filter)
RaceErase(p) ==
  /\ rpc[p] = "idle"
  /\ started < MaxCalls
  /\ \E c \in RaceColls, f \in RaceFilters :
       LET data == readFile(files, filepath(c))
           e == werase(data, f)
       IN /\ validateAlphabetical(c)
          /\ ~e.threw
          /\ rcoll' = [rcoll EXCEPT ![p] = c]
          /\ rsnap' = [rsnap EXCEPT ![p] = data.docs]
          /\ rdata' = [rdata EXCEPT ![p] = e.docs]
          /\ rop' = [rop EXCEPT ![p] = [name |-> "delete", filter |-> f,
                                        at |-> Clock]]
  /\ rpc' = [rpc EXCEPT ![p] = "loaded"]
  /\ started' = started + 1
  /\ UNCHANGED <<files, nextId, rdoc, completed>>
  /\ UNCHANGED <<opVars, pureVars, batchVars, memVars>>

\* insertOne or delete from writeFile(filepath, data) to its return
RaceSave(p) ==
  /\ rpc[p] = "loaded"
  /\ files' = writeFile(files, filepath(rcoll[p]), rdata[p]).files
  /\ completed' = Append(completed, <<p, rcoll[p], rdoc[p], rop[p].name,
                                      rop[p].filter, rop[p].at, Clock>>)
  /\ rpc' = [rpc EXCEPT ![p] = "idle"]
  /\ rcoll' = [rcoll EXCEPT ![p] = NameEmpty]
  /\ rdoc' = [rdoc EXCEPT ![p] = EmptyObj]
  /\ rsnap' = [rsnap EXCEPT ![p] = <<>>]
  /\ rdata' = [rdata EXCEPT ![p] = <<>>]
  /\ rop' = [rop EXCEPT ![p] = NoCall]
  /\ UNCHANGED <<nextId, started>>
  /\ UNCHANGED <<opVars, pureVars, batchVars, memVars>>

NextRace ==
  \/ \E p \in Callers : RaceLoad(p)
  \/ \E p \in Callers : RaceErase(p)
  \/ \E p \in Callers : RaceSave(p)

SpecRace == Init /\ [][NextRace]_vars

\* ------------------------------------------- the pure functions, applied
\* the values of a field: strings, a number, a boolean, null
ProbeValues == {Str("A"), Str("B"), Num("1"), FALSE_V, NULL}
ProbeKeys == {"name", "age"}

\* the objects with fields among ProbeKeys
ProbeDocs ==
  UNION {[K -> ProbeValues] : K \in SUBSET ProbeKeys}

\* what a filter may hold for one key
ProbeFilterValues ==
  {Scalar(v) : v \in ProbeValues}
    \cup {OneOf(<<>>), OneOf(<<Str("A"), Str("B")>>), OneOf(<<NULL, Num("1")>>)}

ProbeFilters ==
  UNION {[K -> ProbeFilterValues] : K \in SUBSET ProbeKeys}

\* the documents handed to writeFile: JSON values, and the values JSON has
\* no text for (undefined, NaN, a BigInt)
MaxLen == 2
SaveDocs ==
  {"_id" :> Str("a"),
   ("_id" :> Str("b")) @@ ("name" :> NULL),
   ("_id" :> Str("a")) @@ ("name" :> Str("A")) @@ ("age" :> Num("1")),
   ("_id" :> Str("c")) @@ ("name" :> UNDEF),
   ("_id" :> Str("d")) @@ ("age" :> NAN),
   ("_id" :> Str("e")) @@ ("age" :> BigIntV("1"))}
SaveSeqs == UNION {[1..n -> SaveDocs] : n \in 0..MaxLen}

\* the directory before the write: no file, a file of one document, a file
\* that does not parse
SaveFiles ==
  {NoFiles,
   NameUsers :> [kind |-> "array", docs |-> <<"_id" :> Str("z")>>],
   NameUsers :> [kind |-> "garbage", docs |-> <<>>]}

\* what a document may hold under _id: nothing, the falsy values, a string,
\* a number
IdValues == {UNDEF, NULL, Str(""), Num("0"), FALSE_V, Str("a"), Num("5")}
IdDocs ==
  {DocAlice} \cup {JObj(("_id" :> v) @@ ("name" :> Str("A"))) : v \in IdValues}
IdBatches ==
  {Batch(<<d, DocWithId>>) : d \in IdDocs} \cup {Batch(<<DocWithId, DocEmptyId>>)}

\* the directory before a call: no file; a file of two documents; a file
\* that does not parse; a file that parses to something else than an array
CallDirs ==
  {NoFiles,
   NameUsers :> [kind |-> "array",
                 docs |-> <<("_id" :> Str("y")) @@ ("name" :> Str("A")),
                            ("_id" :> Str("z")) @@ ("name" :> Str("B"))>>],
   NameUsers :> [kind |-> "garbage", docs |-> <<>>],
   NameUsers :> [kind |-> "object", docs |-> <<>>]}

\* the calls of the operations of Database, with arguments of the right kind
CallInputs ==
  {[NoProbe EXCEPT !.fn = "call", !.name = "insertOne", !.arg = d] :
     d \in IdDocs}
    \cup {[NoProbe EXCEPT !.fn = "call", !.name = "insertMany", !.batch = b] :
            b \in IdBatches}
    \cup {[NoProbe EXCEPT !.fn = "call", !.name = o,
                          !.crit = "name" :> Scalar(Str("A"))] :
            o \in {"findOne", "findMany", "delete"}}
    \cup {[NoProbe EXCEPT !.fn = "call", !.name = o, !.id = Str("z")] :
            o \in {"findById", "deleteById"}}
    \cup {[NoProbe EXCEPT !.fn = "call", !.name = "update",
                          !.crit = "name" :> Scalar(Str("A")),
                          !.upd = JObj("name" :> Str("B"))],
           [NoProbe EXCEPT !.fn = "call", !.name = "updateById",
                          !.id = Str("z"), !.upd = JObj("name" :> Str("B"))]}

\* the arguments of one application, not yet applied
ProbeInputs ==
  {[NoProbe EXCEPT !.fn = "matches", !.obj = d, !.crit = f] :
     d \in ProbeDocs, f \in ProbeFilters}
    \cup {[NoProbe EXCEPT !.fn = "saveLoad", !.docs = q, !.fsys = fs] :
            q \in SaveSeqs, fs \in SaveFiles}
    \cup {[NoProbe EXCEPT !.fn = "validateDoc", !.arg = d, !.n = k] :
            d \in IdDocs \cup NonObjects, k \in 0..1}
    \cup {[c EXCEPT !.fsys = fs] : c \in CallInputs, fs \in CallDirs}

\* validateDoc(document), and validateDoc again on what it returned
ApplyValidateDoc ==
  /\ probe.fn = "validateDoc"
  /\ ~probe.applied
  /\ LET v == validateDoc(probe.arg, probe.n) IN
     probe' = [probe EXCEPT !.applied = TRUE, !.vout = v,
                            !.vagain = IF v.threw THEN v
                                       ELSE validateDoc(JObj(v.doc), v.n)]
  /\ UNCHANGED <<files, nextId>>
  /\ UNCHANGED <<opVars, raceVars, batchVars, memVars>>

\* the method of Database named by the probe, on the collection users
CallOp(p) ==
  CASE p.name = "insertOne" -> insertOne(p.fsys, p.n, NameUsers, p.arg)
    [] p.name = "insertMany" -> insertMany(p.fsys, p.n, NameUsers, p.batch)
    [] p.name = "findById" -> findById(p.fsys, p.n, NameUsers, p.id)
    [] p.name = "findOne" -> findOne(p.fsys, p.n, NameUsers, p.crit)
    [] p.name = "findMany" -> findMany(p.fsys, p.n, NameUsers, p.crit)
    [] p.name = "updateById" ->
         updateById(p.fsys, p.n, NameUsers, p.id, p.upd)
    [] p.name = "update" -> update(p.fsys, p.n, NameUsers, p.crit, p.upd)
    [] p.name = "delete" -> delete(p.fsys, p.n, NameUsers, p.crit)
    [] p.name = "deleteById" -> deleteById(p.fsys, p.n, NameUsers, p.id)

\* one call of one operation on one directory
ApplyCall ==
  /\ probe.fn = "call"
  /\ ~probe.applied
  /\ probe' = [probe EXCEPT !.applied = TRUE, !.out = CallOp(probe)]
  /\ UNCHANGED <<files, nextId>>
  /\ UNCHANGED <<opVars, raceVars, batchVars, memVars>>

\* matches(obj, filterCriteria) on one object and one filter
ApplyMatches ==
  /\ probe.fn = "matches"
  /\ ~probe.applied
  /\ probe' = [probe EXCEPT !.applied = TRUE,
                            !.res = matches(probe.obj, probe.crit)]
  /\ UNCHANGED <<files, nextId>>
  /\ UNCHANGED <<opVars, raceVars, batchVars, memVars>>

\* writeFile(filepath, data) followed by readFile(filepath)
ApplySaveLoad ==
  /\ probe.fn = "saveLoad"
  /\ ~probe.applied
  /\ LET w == writeFile(probe.fsys, filepath(NameUsers), probe.docs) IN
     probe' = [probe EXCEPT !.applied = TRUE, !.threw = w.threw,
                            !.loaded = readFile(w.files, filepath(NameUsers))]
  /\ UNCHANGED <<files, nextId>>
  /\ UNCHANGED <<opVars, raceVars, batchVars, memVars>>

InitProbe ==
  /\ files = NoFiles
  /\ nextId = 0
  /\ InitOp
  /\ InitRace
  /\ probe \in ProbeInputs
  /\ InitBatch
  /\ InitMem

NextPure ==
  \/ ApplyMatches
  \/ ApplySaveLoad
  \/ ApplyValidateDoc
  \/ ApplyCall

SpecPure == InitProbe /\ [][NextPure]_vars

\* ------------------------------------- insertMany in steps, and a reader
\* One process runs insertMany on users; another may run findMany between
\* any two of its statements.
BatchElems ==
  {<<DocAlice, DocBen>>, <<DocWithId, DocAlice>>, <<DocWithId>>,
   <<DocAlice, ArrayArg, DocBen>>, <<>>}

\* the identifiers a batch can draw
Draws(b) ==
  Cardinality({i \in 1..Len(b) : ~Truthy(Get(b[i].f, "_id"))})

\* insertMany from its checks to readFile(filepath)
BatchBegin ==
  /\ bpc # "loop"
  /\ bcalls < MaxCalls
  /\ \E b \in BatchElems :
       LET data == readFile(files, filepath(NameUsers)) IN
       /\ validateAlphabetical(NameUsers)
       /\ \A i \in 1..Len(b) : TypeOf(b[i]) = "object" /\ b[i].t # "null"
       /\ data.isArray
       /\ nextId + Draws(b) <= MaxGen
       /\ Len(data.docs) < MaxDocs
       /\ bbatch' = b
       /\ bsnap' = data.docs
       /\ bdata' = data.docs
  /\ bpc' = "loop"
  /\ bi' = 1
  /\ bwrites' = 0
  /\ bcalls' = bcalls + 1
  /\ UNCHANGED <<files, nextId, bobs>>
  /\ UNCHANGED <<opVars, raceVars, pureVars, memVars>>

\* a loop body that saves after every push
BatchStep_saving ==
  /\ bpc = "loop"
  /\ bi <= Len(bbatch)
  /\ LET v == validateDoc(bbatch[bi], nextId) IN
     IF v.threw
     THEN /\ bpc' = "threw"
          /\ UNCHANGED <<files, nextId, bdata, bi, bwrites>>
     ELSE /\ bdata' = push(bdata, v.doc)
          /\ files' = writeFile(files, filepath(NameUsers),
                                push(bdata, v.doc)).files
          /\ bwrites' = bwrites + 1
          /\ nextId' = v.n
          /\ bi' = bi + 1
          /\ UNCHANGED bpc
  /\ UNCHANGED <<bbatch, bsnap, bcalls, bobs>>
  /\ UNCHANGED <<opVars, raceVars, pureVars, memVars>>

\* one turn of `for (let document of docs)`: validateDoc, data.push
BatchStep ==
  /\ bpc = "loop"
  /\ bi <= Len(bbatch)
  /\ LET v == validateDoc(bbatch[bi], nextId) IN
     IF v.threw
     THEN /\ bpc' = "threw"
          /\ UNCHANGED <<nextId, bdata, bi>>
     ELSE /\ bdata' = push(bdata, v.doc)
          /\ nextId' = v.n
          /\ bi' = bi + 1
          /\ UNCHANGED bpc
  /\ UNCHANGED <<files, bbatch, bsnap, bwrites, bcalls, bobs>>
  /\ UNCHANGED <<opVars, raceVars, pureVars, memVars>>

\* writeFile(filepath, data) after the loop
BatchSave ==
  /\ bpc = "loop"
  /\ bi > Len(bbatch)
  /\ files' = writeFile(files, filepath(NameUsers), bdata).files
  /\ bwrites' = bwrites + 1
  /\ bpc' = "saved"
  /\ UNCHANGED <<nextId, bbatch, bi, bsnap, bdata, bcalls, bobs>>
  /\ UNCHANGED <<opVars, raceVars, pureVars, memVars>>

\* the other process: findMany("users", {})
BatchRead ==
  /\ bobs' = [seen |-> findMany(files, nextId, NameUsers, EmptyObj).ret.many,
              pc |-> bpc, snap |-> bsnap, pushed |-> bi - 1,
              total |-> Len(bbatch)]
  /\ UNCHANGED <<files, nextId, bpc, bbatch, bi, bsnap, bdata, bwrites,
                 bcalls>>
  /\ UNCHANGED <<opVars, raceVars, pureVars, memVars>>

NextBatch ==
  \/ BatchBegin
  \/ BatchStep
  \/ BatchSave
  \/ BatchRead

SpecBatch == Init /\ [][NextBatch]_vars

\* ------------------------- two store instances and a sequence in memory
\* Two Database objects bound to the same root take turns, call by call;
\* beside the file, the same wdata functions are applied to an array that
\* stays in memory.
Instances == {1, 2}
MemDirs ==
  {NoFiles,
   NameUsers :> [kind |-> "array",
                 docs |-> <<("_id" :> Str("z")) @@ ("name" :> Str("A"))>>]}
MemDocs == {DocAlice, DocBen, DocWithId}
MemBatches == {Batch(<<DocAlice, DocBen>>), Batch(<<DocWithId, DocBen>>)}
MemFilters == {EmptyObj, "name" :> Scalar(Str("A"))}
MemIds == {Str("a"), Str("z")}
MemUpdates == {JObj("name" :> Str("B")), JObj("age" :> NULL)}

\* the array in memory
MemArr == [isArray |-> TRUE, docs |-> mem]

\* instance i calls an operation on users: r is what the Database method
\* leaves, m and mr what the array in memory becomes and gives
MemCall(i, name, r, m, mr, d, ds, f, id, u) ==
  /\ op = "idle"
  /\ r.nid <= MaxGen
  /\ Len(m) <= MaxDocs
  /\ prev' = files
  /\ files' = r.files
  /\ nextId' = r.nid
  /\ ret' = r.ret
  /\ io' = r.io
  /\ op' = name
  /\ coll' = NameUsers
  /\ argDoc' = d
  /\ argDocs' = ds
  /\ argFilter' = f
  /\ argId' = id
  /\ argUpd' = u
  /\ mem' = m
  /\ mret' = mr
  /\ inst' = i
  /\ mwriter' = IF name \in {"findById", "findOne", "findMany"}
                THEN mwriter ELSE i
  /\ UNCHANGED <<raceVars, pureVars, batchVars>>

MemInsertOne(i) ==
  \E d \in MemDocs :
    MemCall(i, "insertOne", insertOne(files, nextId, NameUsers, d),
            push(mem, validateDoc(d, nextId).doc), Returned,
            d, NoBatch, NoFilter, NoId, NoUpd)

MemInsertMany(i) ==
  \E ds \in MemBatches :
    MemCall(i, "insertMany", insertMany(files, nextId, NameUsers, ds),
            insertManyLoop(mem, ds.elems, 1, nextId).docs, Returned,
            NoDoc, ds, NoFilter, NoId, NoUpd)

MemFindById(i) ==
  \E id \in MemIds :
    MemCall(i, "findById", findById(files, nextId, NameUsers, id),
            mem, First(wfilter(MemArr, IdFilter(id)).val),
            NoDoc, NoBatch, NoFilter, id, NoUpd)

MemFindOne(i) ==
  \E f \in MemFilters :
    MemCall(i, "findOne", findOne(files, nextId, NameUsers, f),
            mem, First(wfilter(MemArr, f).val),
            NoDoc, NoBatch, f, NoId, NoUpd)

MemFindMany(i) ==
  \E f \in MemFilters :
    MemCall(i, "findMany", findMany(files, nextId, NameUsers, f),
            mem, [Returned EXCEPT !.many = wfilter(MemArr, f).val],
            NoDoc, NoBatch, f, NoId, NoUpd)

MemUpdateById(i) ==
  \E id \in MemIds, u \in MemUpdates :
    MemCall(i, "updateById", updateById(files, nextId, NameUsers, id, u),
            wupdate(MemArr, IdFilter(id), u).docs, Returned,
            NoDoc, NoBatch, NoFilter, id, u)

MemUpdate(i) ==
  \E f \in MemFilters, u \in MemUpdates :
    MemCall(i, "update", update(files, nextId, NameUsers, f, u),
            wupdate(MemArr, f, u).docs, Returned,
            NoDoc, NoBatch, f, NoId, u)

MemDelete(i) ==
  \E f \in MemFilters :
    MemCall(i, "delete", delete(files, nextId, NameUsers, f),
            werase(MemArr, f).docs, Returned,
            NoDoc, NoBatch, f, NoId, NoUpd)

MemDeleteById(i) ==
  \E id \in MemIds :
    MemCall(i, "deleteById", deleteById(files, nextId, NameUsers, id),
            werase(MemArr, IdFilter(id)).docs, Returned,
            NoDoc, NoBatch, NoFilter, id, NoUpd)

\* the directory may hold a users file when the instances are constructed
InitMemSpec ==
  /\ files \in MemDirs
  /\ nextId = 0
  /\ InitOp
  /\ InitRace
  /\ InitPure
  /\ InitBatch
  /\ mem = Stored(files, NameUsers)
  /\ mret = Returned
  /\ inst = 0
  /\ mwriter = 0

NextMem ==
  \/ \E i \in Instances : MemInsertOne(i)
  \/ \E i \in Instances : MemInsertMany(i)
  \/ \E i \in Instances : MemFindById(i)
  \/ \E i \in Instances : MemFindOne(i)
  \/ \E i \in Instances : MemFindMany(i)
  \/ \E i \in Instances : MemUpdateById(i)
  \/ \E i \in Instances : MemUpdate(i)
  \/ \E i \in Instances : MemDelete(i)
  \/ \E i \in Instances : MemDeleteById(i)
  \/ Return

SpecMem == InitMemSpec /\ [][NextMem]_vars

\* ------------------------------------------------------------------ claims
\* the collection of the last call, before and after it
Before == Stored(prev, coll)
After == Stored(files, coll)
Called(name) == op = name /\ coll \in ValidNames
Range(q) == {q[i] : i \in 1..Len(q)}

\* a plain mapping, as opposed to an array, null or a primitive
IsPlainMapping(a) == a.t = "object"

\* section 4.1 of the specification: every key of the filter holds of the
\* document, a sequence by membership and a scalar by equality
FilterHolds(d, f) ==
  \A key \in DOMAIN f :
    IF f[key].isArray
    THEN Get(d, key) \in Range(f[key].vals)
    ELSE Get(d, key) = f[key].vals[1]

\* the positions of q whose document satisfies f, and the i-th of them
Hits(q, f) == {j \in 1..Len(q) : FilterHolds(q[j], f)}
Nth(M, i) == CHOOSE j \in M : Cardinality({k \in M : k < j}) = i - 1
Min(M) == CHOOSE j \in M : \A k \in M : j <= k

\* C1: no two documents stored in one collection file have the same _id,
\* whatever inserts, updates and deletes were called.
C1_UniqueIds ==
  \A c \in DOMAIN files :
    \A i, j \in 1..Len(Stored(files, c)) :
      i # j => Get(Stored(files, c)[i], "_id") # Get(Stored(files, c)[j], "_id")

\* C2: every stored document has an _id whose value is a string.
C2_IdIsString ==
  \A c \in DOMAIN files :
    \A i \in 1..Len(Stored(files, c)) :
      Get(Stored(files, c)[i], "_id")[1] = "string"

\* C3: an insertOne that completes leaves the file holding exactly the
\* snapshot it read followed by its own document, whatever other callers
\* wrote between its readFile and its writeFile.
C3_SaveOverwritesWithSnapshot ==
  [][\A p \in Callers :
       (rpc[p] = "loaded" /\ rpc'[p] = "idle" /\ rop[p].name = "insertOne")
         => Stored(files', rcoll[p]) = rsnap[p] \o <<rdoc[p]>>]_vars

\* C3 witness: two insertOne calls on one collection have both returned and
\* the file holds the document of the later one only.
C3_LostUpdate ==
  /\ Len(completed) = 2
  /\ completed[1][4] = "insertOne"
  /\ completed[2][4] = "insertOne"
  /\ completed[1][2] = completed[2][2]
  /\ completed[1][3] # completed[2][3]
  /\ Stored(files, completed[2][2]) = <<completed[2][3]>>

\* C4: a call that throws leaves every file as it was before the call.
C4_FailureLeavesFiles ==
  (op # "idle" /\ ret.kind = "throw") => files = prev

\* C4 witness: an insertMany on a non-empty collection threw on an invalid
\* element in the middle of its batch.
C4_MidBatchFailure ==
  /\ Called("insertMany")
  /\ argDocs = Batch(<<DocAlice, ArrayArg, DocBen>>)
  /\ ret.kind = "throw"
  /\ Len(Before) > 0

\* C5: a call whose collection name holds a path separator, a drive
\* separator or a control character throws without any fs call, leaves the
\* files unchanged, and no file with such a name ever exists.
C5_UnsafeNameRejected ==
  /\ (op # "idle" /\ Unsafe(coll))
       => (ret.kind = "throw" /\ io = <<>> /\ files = prev)
  /\ \A path \in DOMAIN files : ~Unsafe(path)

\* C5 witness: an insertOne named with a path separator has thrown.
C5_SlashNameThrown ==
  op = "insertOne" /\ coll = NameSlash /\ ret.kind = "throw"

\* C6: insertOne, insertMany, update and updateById throw, and change no
\* file, when the document, an element of the batch or the update spec is
\* not a plain mapping.
C6_NonMappingRejected ==
  /\ (Called("insertOne") /\ ~IsPlainMapping(argDoc))
       => (ret.kind = "throw" /\ files = prev)
  /\ (Called("insertMany")
        /\ (~argDocs.isArray
            \/ \E i \in 1..Len(argDocs.elems) : ~IsPlainMapping(argDocs.elems[i])))
       => (ret.kind = "throw" /\ files = prev)
  /\ ((Called("update") \/ Called("updateById")) /\ ~IsPlainMapping(argUpd))
       => (ret.kind = "throw" /\ files = prev)

\* C7: findMany returns the stored documents that satisfy the filter, each
\* once and in stored order; with the empty filter, the whole sequence.
C7_FindManySubsequence ==
  Called("findMany") =>
    /\ ret.kind = "return"
    /\ Len(ret.many) = Cardinality(Hits(After, argFilter))
    /\ \A i \in 1..Len(ret.many) :
         ret.many[i] = After[Nth(Hits(After, argFilter), i)]
    /\ (argFilter = EmptyObj => ret.many = After)

\* C7 witness: findMany with a non-empty filter returned two different
\* documents.
C7_TwoMatches ==
  /\ Called("findMany")
  /\ argFilter # EmptyObj
  /\ Len(ret.many) = 2
  /\ ret.many[1] # ret.many[2]

\* C8: findOne returns the first stored document satisfying the filter and
\* findById the first whose _id equals the id; without a match, or without
\* a file, they return undefined; neither throws.
C8_FindFirst ==
  /\ Called("findOne") =>
       /\ ret.kind = "return"
       /\ ret.found = (Hits(After, argFilter) # {})
       /\ ret.found => ret.one = After[Min(Hits(After, argFilter))]
  /\ Called("findById") =>
       LET M == {j \in 1..Len(After) : Get(After[j], "_id") = argId} IN
       /\ ret.kind = "return"
       /\ ret.found = (M # {})
       /\ ret.found => ret.one = After[Min(M)]
  /\ ((Called("findOne") \/ Called("findById"))
        /\ filepath(coll) \notin DOMAIN files)
       => (ret.kind = "return" /\ ~ret.found)

\* C8 witness: findOne returned the first of two different matching
\* documents.
C8_FirstOfTwo ==
  /\ Called("findOne")
  /\ ret.found
  /\ Cardinality(Hits(After, argFilter)) = 2
  /\ After[1] # After[2]

\* C9: update with a mapping merges it into every document satisfying the
\* filter (fields of the update take its values, the other fields keep
\* theirs, missing fields are added) and leaves the other documents as
\* they were.
C9_UpdateMerges ==
  (Called("update") /\ IsPlainMapping(argUpd) /\ ret.kind = "return") =>
    /\ Len(After) = Len(Before)
    /\ \A i \in 1..Len(Before) :
         IF FilterHolds(Before[i], argFilter)
         THEN /\ DOMAIN After[i] = DOMAIN Before[i] \cup DOMAIN argUpd.f
              /\ \A k \in DOMAIN argUpd.f : After[i][k] = argUpd.f[k]
              /\ \A k \in DOMAIN Before[i] \ DOMAIN argUpd.f :
                   After[i][k] = Before[i][k]
         ELSE After[i] = Before[i]

\* C9 witness: an update overwrote a field of one document, added a field
\* to another, and left a third field of a matching document alone.
C9_MergedAndAdded ==
  /\ Called("update")
  /\ IsPlainMapping(argUpd)
  /\ ret.kind = "return"
  /\ \E i \in 1..Len(Before) :
       /\ FilterHolds(Before[i], argFilter)
       /\ DOMAIN argUpd.f \subseteq DOMAIN Before[i]
       /\ After[i] # Before[i]
       /\ DOMAIN Before[i] \ DOMAIN argUpd.f # {}
  /\ \E i \in 1..Len(Before) :
       /\ FilterHolds(Before[i], argFilter)
       /\ ~(DOMAIN argUpd.f \subseteq DOMAIN Before[i])

\* C10: updateById changes at most one document of the collection.
C10_UpdateByIdAtMostOne ==
  (Called("updateById") /\ ret.kind = "return") =>
    /\ Len(After) = Len(Before)
    /\ Cardinality({i \in 1..Len(Before) : After[i] # Before[i]}) <= 1

\* C11: update and updateById keep every document's _id, and findById with
\* the id a document had before the call returns that document as updated.
C11_UpdateKeepsIdentity ==
  ((Called("update") \/ Called("updateById")) /\ ret.kind = "return") =>
    /\ Len(After) = Len(Before)
    /\ \A i \in 1..Len(Before) :
         /\ Get(After[i], "_id") = Get(Before[i], "_id")
         /\ LET r == findById(files, nextId, coll, Get(Before[i], "_id")).ret
            IN r.found /\ r.one = After[i]

\* the filter of the last delete or deleteById
DeleteFilter == IF op = "delete" THEN argFilter ELSE "_id" :> Scalar(argId)

StoredFor(a, d) ==
  /\ DOMAIN d = DOMAIN a.f \cup {"_id"}
  /\ \A k \in DOMAIN a.f \ {"_id"} : d[k] = a.f[k]
  /\ Truthy(d["_id"])
  /\ Truthy(Get(a.f, "_id")) => d["_id"] = a.f["_id"]

\* C13: insertOne puts its document last and leaves the documents stored
\* before where and as they were.
C13_InsertOneAppends ==
  (Called("insertOne") /\ ret.kind = "return") =>
    /\ Len(After) = Len(Before) + 1
    /\ SubSeq(After, 1, Len(Before)) = Before
    /\ StoredFor(argDoc, After[Len(After)])

\* C13 witness: the second insertOne into a collection that had no file
\* has returned and the file holds both documents.
C13_SecondInsert ==
  /\ Called("insertOne")
  /\ ret.kind = "return"
  /\ Len(Before) = 1
  /\ Len(After) = 2
  /\ After[1] # After[2]

\* C14: insertMany leaves the previous documents followed by the documents
\* of the batch, in the order of the batch, each with an _id.
C14_InsertManyAppends ==
  (Called("insertMany") /\ ret.kind = "return") =>
    /\ Len(After) = Len(Before) + Len(argDocs.elems)
    /\ SubSeq(After, 1, Len(Before)) = Before
    /\ \A i \in 1..Len(argDocs.elems) :
         StoredFor(argDocs.elems[i], After[Len(Before) + i])

\* C14 witness: an insertMany of two different documents has returned.
C14_BatchOfTwo ==
  /\ Called("insertMany")
  /\ ret.kind = "return"
  /\ Len(argDocs.elems) = 2
  /\ argDocs.elems[1] # argDocs.elems[2]
  /\ Len(After) = 2

\* C18: findById, findOne and findMany leave every file as it was and never
\* call writeFileSync; findMany called again on the files it left returns
\* the same result.
C18_ReadsArePure ==
  /\ op \in {"findById", "findOne", "findMany"}
       => (files = prev /\ "writeFileSync" \notin Range(io))
  /\ Called("findMany")
       => findMany(files, nextId, coll, argFilter).ret = ret

\* C18 witness: a findMany returned one of the two stored documents.
C18_FoundOneOfTwo ==
  /\ Called("findMany")
  /\ ret.kind = "return"
  /\ Len(After) = 2
  /\ Len(ret.many) = 1

\* C19: a collection file comes into existence only by an insertOne or an
\* insertMany on that collection.
C19_CreatedByInsertOnly ==
  [][\A c \in CollNames :
       (filepath(c) \notin DOMAIN files /\ filepath(c) \in DOMAIN files')
         => (op' \in {"insertOne", "insertMany"} /\ coll' = c)]_vars

\* the filter holding only the key k of f
OnlyKey(f, k) == k :> f[k]

\* C15: matches(d, f) is true exactly when d matches every key of f taken
\* alone, and so is true for the empty filter.
C15_MatchesIsConjunction ==
  (probe.fn = "matches" /\ probe.applied) =>
    /\ probe.res = (\A k \in DOMAIN probe.crit :
                      matches(probe.obj, OnlyKey(probe.crit, k)))
    /\ probe.crit = EmptyObj => probe.res

\* C15 witness: a filter of two keys, one of which the object matches and
\* the other not, was applied and did not match.
C15_OneKeyOfTwoMatches ==
  /\ (probe.fn = "matches" /\ probe.applied)
  /\ DOMAIN probe.crit = ProbeKeys
  /\ \E k \in ProbeKeys : FilterHolds(probe.obj, OnlyKey(probe.crit, k))
  /\ \E k \in ProbeKeys : ~FilterHolds(probe.obj, OnlyKey(probe.crit, k))
  /\ ~probe.res

\* C16: under a filter of one key, a sequence matches exactly the objects
\* whose value for the key is one of its members (the empty sequence none),
\* and a scalar exactly the objects that have the key with that very value.
C16_SingleKeyMatch ==
  (probe.fn = "matches" /\ probe.applied
     /\ Cardinality(DOMAIN probe.crit) = 1) =>
    LET k == CHOOSE x \in DOMAIN probe.crit : TRUE
        fv == probe.crit[k]
        has == k \in DOMAIN probe.obj
    IN /\ fv.isArray =>
            probe.res = (has /\ \E i \in 1..Len(fv.vals) :
                                  fv.vals[i] = probe.obj[k])
       /\ (fv.isArray /\ fv.vals = <<>>) => ~probe.res
       /\ ~fv.isArray => probe.res = (has /\ probe.obj[k] = fv.vals[1])
       /\ (~fv.isArray /\ ~has) => ~probe.res

\* C16 witness: the scalar null was looked for under a key the object does
\* not have, and the object did not match.
C16_NullAgainstMissingKey ==
  /\ (probe.fn = "matches" /\ probe.applied)
  /\ DOMAIN probe.crit = {"name"}
  /\ probe.crit["name"] = Scalar(NULL)
  /\ DOMAIN probe.obj = {"age"}
  /\ ~probe.res

\* a document all of whose values JSON can write
Representable(d) ==
  \A k \in DOMAIN d :
    /\ d[k][1] \in {"string", "number", "boolean", "null"}
    /\ d[k] # NAN

\* C17: writeFile followed by readFile gives back the sequence written, when
\* every document of it is JSON-representable.
C17_RoundTrip ==
  (probe.fn = "saveLoad" /\ probe.applied
     /\ \A i \in 1..Len(probe.docs) : Representable(probe.docs[i])) =>
    /\ ~probe.threw
    /\ probe.loaded.isArray
    /\ probe.loaded.docs = probe.docs

\* C17 witness: two documents, one with a null field, were written over a
\* file that held another document and read back.
C17_TwoDocsOverOldFile ==
  /\ (probe.fn = "saveLoad" /\ probe.applied)
  /\ Len(probe.docs) = 2
  /\ probe.docs[1] # probe.docs[2]
  /\ \E i \in 1..2 : Get(probe.docs[i], "name") = NULL
  /\ \A i \in 1..2 : Representable(probe.docs[i])
  /\ NameUsers \in DOMAIN probe.fsys
  /\ probe.loaded.docs = probe.docs

\* the file of collection c in the directory fs, if there is one
FileOf(fs, c) == IF filepath(c) \in DOMAIN fs THEN <<fs[filepath(c)]>> ELSE <<>>

\* every operation of Database applied, whole, to collection c
OutcomesOn(fs, n, c) ==
  {insertOne(fs, n, c, DocAlice),
   insertMany(fs, n, c, Batch(<<DocAlice, DocBen>>)),
   findById(fs, n, c, Str("a")),
   findOne(fs, n, c, EmptyObj),
   findMany(fs, n, c, EmptyObj),
   updateById(fs, n, c, Str("a"), JObj("name" :> Str("B"))),
   update(fs, n, c, EmptyObj, JObj("name" :> Str("B"))),
   delete(fs, n, c, EmptyObj),
   deleteById(fs, n, c, Str("a"))}

\* a completed call run whole on the directory fs
RunOne(fs, e) ==
  IF e[4] = "insertOne"
  THEN insertOne(fs, 0, e[2], JObj(e[3])).files
  ELSE delete(fs, 0, e[2], e[5]).files

\* the completed calls from the i-th on, run one after the other
RECURSIVE SeqRun(_, _, _)
SeqRun(entries, i, fs) ==
  IF i > Len(entries) THEN fs
  ELSE SeqRun(entries, i + 1, RunOne(fs, entries[i]))

\* calls on one collection did not overlap: the later one read the file
\* after the earlier one wrote it
NoOverlapWithin ==
  \A i, j \in 1..Len(completed) :
    (i < j /\ completed[i][2] = completed[j][2])
      => completed[j][6] > completed[i][7]

\* C20: an operation on one collection leaves the file of every other
\* collection as it was, existing or not; and when the calls on each single
\* collection do not overlap, the files after any interleaving of the
\* readFile and writeFile steps of calls on different collections are the
\* files the same calls leave when run one after the other.
C20_CollectionsIndependent ==
  /\ [](/\ \A c \in RaceColls :
            \A r \in OutcomesOn(files, nextId, c) :
              \A b \in RaceColls \ {c} : FileOf(r.files, b) = FileOf(files, b)
        /\ NoOverlapWithin => files = SeqRun(completed, 1, NoFiles))
  /\ [][\A p \in Callers :
          (rpc[p] = "loaded" /\ rpc'[p] = "idle")
            => \A b \in RaceColls \ {rcoll[p]} :
                 FileOf(files', b) = FileOf(files, b)]_vars

\* C20 witness: two insertOne calls on different collections, the second
\* of which read its file before the first wrote, have both returned and
\* each file holds its document.
C20_InterleavedOnTwoCollections ==
  /\ Len(completed) = 2
  /\ completed[1][4] = "insertOne"
  /\ completed[2][4] = "insertOne"
  /\ completed[1][2] # completed[2][2]
  /\ completed[2][6] < completed[1][7]
  /\ Stored(files, completed[1][2]) = <<completed[1][3]>>
  /\ Stored(files, completed[2][2]) = <<completed[2][3]>>

\* the last call was handed a document, a batch or an update spec that is
\* not a plain mapping (or a batch that is not an array of them)
InvalidArgument ==
  \/ op = "insertOne" /\ ~IsPlainMapping(argDoc)
  \/ op = "insertMany"
       /\ (~argDocs.isArray
           \/ \E i \in 1..Len(argDocs.elems) : ~IsPlainMapping(argDocs.elems[i]))
  \/ op \in {"update", "updateById"} /\ ~IsPlainMapping(argUpd)

\* C22: a call that throws because its document, batch element or update
\* spec is not a plain mapping has not read the collection file.
C22_ValidationBeforeRead ==
  (coll \in ValidNames /\ InvalidArgument /\ ret.kind = "throw") =>
    "readFileSync" \notin Range(io)

\* d with the fields of u laid over it
Merge(d, u) ==
  [k \in DOMAIN d \cup DOMAIN u |-> IF k \in DOMAIN u THEN u[k] ELSE d[k]]

\* C27: update and updateById keep the number of documents and their
\* positions: each position holds the document it held, as it was or merged
\* with the update spec.
C27_UpdateKeepsLengthAndOrder ==
  ((Called("update") \/ Called("updateById")) /\ ret.kind = "return") =>
    /\ Len(After) = Len(Before)
    /\ \A i \in 1..Len(Before) :
         After[i] \in {Before[i], Merge(Before[i], argUpd.f)}

\* C27 witness: an update changed the first of two documents and not the
\* second.
C27_ChangedFirstOfTwo ==
  /\ Called("update")
  /\ ret.kind = "return"
  /\ Len(Before) = 2
  /\ After[1] # Before[1]
  /\ After[2] = Before[2]
  /\ After[1] # After[2]

\* the filter of the last update, updateById, delete or deleteById
CallFilter ==
  IF op \in {"update", "delete"} THEN argFilter ELSE "_id" :> Scalar(argId)

\* C28: on a collection whose file exists, update, updateById (with an
\* object as update spec), delete and deleteById return and leave the
\* stored sequence as it was when no document satisfies the filter or has
\* the id.
C28_NoMatchNoChange ==
  (/\ op \in {"update", "updateById", "delete", "deleteById"}
   /\ coll \in ValidNames
   /\ filepath(coll) \in DOMAIN prev
   /\ Hits(Before, CallFilter) = {}
   /\ op \in {"update", "updateById"} => argUpd.t \in {"object", "array"}) =>
    /\ ret.kind = "return"
    /\ After = Before

\* C28 witness: a delete whose filter no stored document satisfies
\* returned, and the two documents are still there.
C28_DeleteMatchedNothing ==
  /\ Called("delete")
  /\ ret.kind = "return"
  /\ Len(Before) = 2
  /\ Hits(Before, argFilter) = {}
  /\ After = Before

\* C29: findOne gives the first element of what findMany gives for the same
\* filter, nothing when that is empty, and findById(id) gives what findOne
\* gives for the filter {_id: id}; they throw alike.
C29_ReadsAgree ==
  /\ op = "findOne" =>
       LET m == findMany(files, nextId, coll, argFilter).ret IN
       ret = IF m.kind = "throw" THEN m
             ELSE IF m.many = <<>> THEN Returned
             ELSE [Returned EXCEPT !.found = TRUE, !.one = m.many[1]]
  /\ op = "findById" =>
       ret = findOne(files, nextId, coll, "_id" :> Scalar(argId)).ret

\* C29 witness: a findById found the second of two stored documents.
C29_FoundSecondById ==
  /\ Called("findById")
  /\ ret.kind = "return"
  /\ Len(After) = 2
  /\ ret.found
  /\ ret.one = After[2]
  /\ ret.one # After[1]

\* C21: for a plain mapping without _id, validateDoc returns the mapping
\* with its fields and an _id that is a non-empty string, and validateDoc on
\* the result returns it as it is.
C21_EnsureIdentity ==
  (/\ probe.fn = "validateDoc"
   /\ probe.applied
   /\ IsPlainMapping(probe.arg)
   /\ "_id" \notin DOMAIN probe.arg.f) =>
    /\ ~probe.vout.threw
    /\ DOMAIN probe.vout.doc = DOMAIN probe.arg.f \cup {"_id"}
    /\ \A k \in DOMAIN probe.arg.f : probe.vout.doc[k] = probe.arg.f[k]
    /\ probe.vout.doc["_id"][1] = "string"
    /\ probe.vout.doc["_id"][2] # ""
    /\ ~probe.vagain.threw
    /\ probe.vagain.doc = probe.vout.doc

\* C21 witness: validateDoc was applied twice to a document that had a name
\* and no _id, after one identifier had been drawn.
C21_TwiceOnDocWithoutId ==
  /\ probe.fn = "validateDoc"
  /\ probe.applied
  /\ probe.arg = DocAlice
  /\ probe.n = 1
  /\ probe.vagain.doc["_id"] = randomHex(1)
  /\ probe.vagain.n = 2

\* the file of users in the directory of the probe is there and does not
\* hold an array
CorruptFile ==
  /\ NameUsers \in DOMAIN probe.fsys
  /\ probe.fsys[NameUsers].kind # "array"

\* C24: on a file that is not JSON or not a JSON array, a call with valid
\* arguments returns or fails with a CorruptCollection error.
C24_CorruptFileHandled ==
  (probe.fn = "call" /\ probe.applied /\ CorruptFile) =>
    \/ probe.out.ret.kind = "return"
    \/ probe.out.ret.err = "CorruptCollection"

\* the identifiers validateDoc can draw from the n-th on
NewIds(n) == {randomHex(k) : k \in n..(Len(HexTable) - 1)}

\* the document stored for the argument a has a new identifier when a has
\* no _id or a falsy one, and the _id of a otherwise
IdRule(a, d, n) ==
  IF "_id" \notin DOMAIN a.f
       \/ a.f["_id"] \in {UNDEF, NULL, Str(""), Num("0"), FALSE_V}
  THEN d["_id"] \in NewIds(n) /\ d["_id"] # Get(a.f, "_id")
  ELSE d["_id"] = a.f["_id"]

\* the documents of users after the call of the probe
ProbeAfter == Stored(probe.out.files, NameUsers)

\* C25: insertOne and insertMany store a document whose _id is absent or
\* falsy under a newly drawn identifier, and a document whose _id is truthy
\* under that _id.
C25_IdAssignedWhenFalsy ==
  (probe.fn = "call" /\ probe.applied /\ probe.out.ret.kind = "return") =>
    /\ probe.name = "insertOne" =>
         IdRule(probe.arg, ProbeAfter[Len(ProbeAfter)], probe.n)
    /\ probe.name = "insertMany" =>
         \A i \in 1..Len(probe.batch.elems) :
           IdRule(probe.batch.elems[i],
                  ProbeAfter[Len(ProbeAfter) - Len(probe.batch.elems) + i],
                  probe.n)

\* C25 witness: insertOne of a document with _id 0 into a collection of two
\* stored it third, under a drawn identifier.
C25_ZeroIdReplaced ==
  /\ probe.fn = "call"
  /\ probe.applied
  /\ probe.name = "insertOne"
  /\ Get(probe.arg.f, "_id") = Num("0")
  /\ Len(ProbeAfter) = 3
  /\ ProbeAfter[3]["_id"] = randomHex(0)

\* C30: on a file that does not parse, insertOne returns and leaves the
\* file holding its document alone; update, updateById, delete and
\* deleteById return and leave it holding the empty array.
C30_UnparsableFileReplaced ==
  (/\ probe.fn = "call"
   /\ probe.applied
   /\ NameUsers \in DOMAIN probe.fsys
   /\ probe.fsys[NameUsers].kind = "garbage") =>
    /\ probe.name = "insertOne" =>
         /\ probe.out.ret.kind = "return"
         /\ probe.out.files[NameUsers].kind = "array"
         /\ Len(ProbeAfter) = 1
         /\ StoredFor(probe.arg, ProbeAfter[1])
    /\ probe.name \in {"update", "updateById", "delete", "deleteById"} =>
         /\ probe.out.ret.kind = "return"
         /\ probe.out.files[NameUsers] = [kind |-> "array", docs |-> <<>>]

\* C30 witness: an update on a file that does not parse returned and the
\* file holds the empty array.
C30_UpdateOnUnparsable ==
  /\ probe.fn = "call"
  /\ probe.applied
  /\ probe.name = "update"
  /\ NameUsers \in DOMAIN probe.fsys
  /\ probe.fsys[NameUsers].kind = "garbage"
  /\ probe.out.ret.kind = "return"
  /\ probe.out.files[NameUsers] = [kind |-> "array", docs |-> <<>>]

\* C23: insertMany calls writeFile once, after the loop has appended every
\* document of the batch, and not at all when it throws; what a findMany
\* run between its statements sees is the file as the insertMany read it,
\* and after it the same followed by the whole batch, never by a part.
C23_BatchSavedOnce ==
  /\ [](/\ bpc \in {"loop", "threw"} => bwrites = 0
        /\ bpc = "saved" => bwrites = 1
        /\ bobs.pc = "loop" => bobs.seen = bobs.snap
        /\ bobs.pc \in {"loop", "saved", "threw"} =>
             /\ SubSeq(bobs.seen, 1, Len(bobs.snap)) = bobs.snap
             /\ Len(bobs.seen) - Len(bobs.snap) \in {0, bobs.total})
  /\ [][files' # files =>
          (bpc = "loop" /\ bi > Len(bbatch) /\ bpc' = "saved"
             /\ Stored(files', NameUsers) = bdata)]_vars

\* C23 witness: a findMany ran when the loop had appended the first of two
\* documents to a non-empty array, and saw the file without it.
C23_ReadMidBatch ==
  /\ bobs.pc = "loop"
  /\ bobs.total = 2
  /\ bobs.pushed = 1
  /\ bobs.snap # <<>>
  /\ bobs.seen = bobs.snap

\* C26: after every call, by either instance, the users file holds the
\* sequence obtained by applying the same calls to an array kept in memory
\* from the file's first content on, and the call returned what that array
\* gives.
C26_FileIsTheOnlyState ==
  /\ Stored(files, NameUsers) = mem
  /\ op # "idle" => ret = mret

\* C26 witness: instance 2 ran findMany after instance 1 had last written
\* the file that held a document from the start, and got two documents.
C26_ReadOtherInstancesWrite ==
  /\ op = "findMany"
  /\ inst = 2
  /\ mwriter = 1
  /\ Len(ret.many) = 2
  /\ ret.many[1] = ("_id" :> Str("z")) @@ ("name" :> Str("A"))
  /\ ret.many = mem

====
